---- MODULE Spec2Model ----
(***************************************************************************)
(* Master Jazz Pianist API (src/main.py, src/schemas.py).                  *)
(*                                                                         *)
(* The state is the document store (four collections, each in the store's  *)
(* natural order, and the store's id generator), the process-wide database *)
(* handle, and one request slot per worker holding the request being       *)
(* served and its response.  Every data-access call is one atomic store    *)
(* operation; POST /seed makes up to eight of them, every other handler    *)
(* makes one.                                                              *)
(*                                                                         *)
(* Strings that the code inspects character by character (chord names and  *)
(* symbols, the query q, error messages, stringified ids) are tuples of    *)
(* one-character strings; all other strings are TLA+ strings.              *)
(***************************************************************************)
EXTENDS Integers, Sequences, FiniteSets, TLC

VARIABLES db, store, nextId, req, seeded, acked

vars == <<db, store, nextId, req, seeded, acked>>

(* ------------------------------ bounds --------------------------------- *)

\* Workers serving requests at the same time under SpecConc.
NumWorkers == 2
\* POST /favorites is accepted by the model while the collection is shorter.
MaxFavorites == 2
\* db.list_collection_names() returns up to MaxCollections names.
MaxCollections == 11
\* The first id the store generates in a collection.
FirstId == 9

(* --------------------------- program constants ------------------------- *)

\* collections[:10]
CollectionsShown == 10
\* str(e)[:50]
ErrorShown == 50

Workers == 1..NumWorkers
Collections == {"chord", "progression", "lesson", "favorite"}

(* ------------------------------ strings -------------------------------- *)

UpperCase == <<"A","B","C","D","E","F","G","H","I","J","K","L","M",
               "N","O","P","Q","R","S","T","U","V","W","X","Y","Z">>
LowerCase == <<"a","b","c","d","e","f","g","h","i","j","k","l","m",
               "n","o","p","q","r","s","t","u","v","w","x","y","z">>

\* Case folding of one character, as the "i" option compares characters.
Fold(c) ==
    IF \E i \in 1..Len(UpperCase) : UpperCase[i] = c
    THEN LowerCase[CHOOSE i \in 1..Len(UpperCase) : UpperCase[i] = c]
    ELSE c

Min(a, b) == IF a < b THEN a ELSE b

\* s[:n]
Take(s, n) == SubSeq(s, 1, Min(n, Len(s)))

Digits == <<"0","1","2","3","4","5","6","7","8","9">>

RECURSIVE Str(_)
\* str(d["_id"]): the store's id, a number here, written out in digits.
Str(n) == IF n < 10 THEN <<Digits[n + 1]>>
          ELSE Append(Str(n \div 10), Digits[(n % 10) + 1])

\* Optional[str]
None == [some |-> FALSE, val |-> <<>>]
Some(s) == [some |-> TRUE, val |-> s]
\* Python truthiness of an Optional[str]: None and "" are falsy.
Truthy(o) == o.some /\ o.val # <<>>

(* ------------------------- the starter documents ----------------------- *)

Chord(name, symbol, root, quality, notes, extensions, voicings, tags) ==
    [name |-> name, symbol |-> symbol, root |-> root, quality |-> quality,
     notes |-> notes, extensions |-> extensions, voicings |-> voicings,
     tags |-> tags]

Progression(name, key, roman_numerals, chords, style) ==
    [name |-> name, key |-> key, roman_numerals |-> roman_numerals,
     chords |-> chords, style |-> style]

Lesson(title, level, content, tags) ==
    [title |-> title, level |-> level, content |-> content, tags |-> tags]

Favorite(client_id, kind, ref, note) ==
    [client_id |-> client_id, kind |-> kind, ref |-> ref, note |-> note]

StarterChords ==
    << Chord(<<"C"," ","M","a","j","o","r"," ","7">>, <<"C","m","a","j","7">>,
             "C", "major7", <<"C","E","G","B">>, <<"9","13">>,
             << <<"C","E","B","D">>, <<"E","B","D","G">> >>,
             <<"rootless","shell">>),
       Chord(<<"G","7">>, <<"G","7">>,
             "G", "dominant7", <<"G","B","D","F">>, <<"9","13">>,
             << <<"F","B","E","A">>, <<"B","E","A","D">> >>,
             <<"altered","rootless">>),
       Chord(<<"D"," ","M","i","n","o","r"," ","7">>, <<"D","m","7">>,
             "D", "minor7", <<"D","F","A","C">>, <<"9","11">>,
             << <<"C","F","A","E">>, <<"F","A","C","E">> >>,
             <<"shell">>) >>

StarterProgression ==
    Progression("ii-V-I in C", "C", <<"ii","V","I">>, <<"Dm7","G7","Cmaj7">>,
                "bebop")

\* The title is written here with plain hyphens and the markdown content
\* is abridged to its two headings; no handler looks inside either.
StarterLesson ==
    Lesson("Rootless ii-V-I Voicings", "intermediate",
           "### Goal ... ### Steps ...", <<"voicings","ii-v-i","practice">>)

(* --------------------------- data access layer ------------------------- *)

\* The storage errors a data-access call can raise, by message.
ShortError == <<"d","o","w","n">>
LongError == [i \in 1..(ErrorShown + 2) |-> "x"]
Errors == {ShortError, LongError}
NotAvailable == <<"n","o"," ","d","b">>

\* The errors a data-access call can raise in the current state: with no
\* database handle it always raises, with one it may or may not.
CanRaise == IF db = "None" THEN {NotAvailable} ELSE Errors
CanSucceed == db # "None"

\* The "$regex" operator on the pattern fragment made of literal characters
\* and ".", which matches any character: whether pattern p matches text s
\* starting right after offset k.
RegexMatchAt(p, s, k, options) ==
    \A i \in 1..Len(p) :
        \/ p[i] = "."
        \/ IF options = "i" THEN Fold(p[i]) = Fold(s[k + i])
                            ELSE p[i] = s[k + i]

\* An unanchored regex matches when it matches at some offset.
RegexSearch(p, s, options) ==
    \E k \in 0..(Len(s) - Len(p)) : RegexMatchAt(p, s, k, options)

\* Whether a document satisfies a query filter.
Matches(doc, filter) ==
    CASE filter.type = "all" -> TRUE
      [] filter.type = "eq"  -> doc[filter.field] = filter.value
      [] filter.type = "or"  ->
            \E i \in 1..Len(filter.clauses) :
                RegexSearch(filter.clauses[i].regex,
                            doc[filter.clauses[i].field],
                            filter.clauses[i].options)

\* getDocuments(collection, filter, limit): the matching documents in the
\* store's natural order, each with its generated id; limit 0 is unbounded.
get_documents(collection, filter, limit) ==
    LET found == SelectSeq(store[collection], LAMBDA d : Matches(d, filter))
    IN  IF limit = 0 THEN found ELSE Take(found, limit)

\* createDocument(collection, doc): the store after inserting one record
\* under a fresh store-generated id.  Ids are unique within a collection.
create_document(collection, doc) ==
    [store EXCEPT ![collection] =
        Append(@, [_id |-> nextId[collection]] @@ doc)]

\* The id generator after an insert into collection.
IdsAfter(collection) == [nextId EXCEPT ![collection] = @ + 1]

EmptyFilter == [type |-> "all"]
Unbounded == 0

(* ------------------------------ requests ------------------------------- *)

NoBody == [none |-> TRUE]
Idle == [op |-> "idle", pc |-> "idle", arg |-> NoBody, raised |-> <<>>,
         status |-> 0, body |-> NoBody]

\* A worker takes a new request when it is serving none.
Free(r) == req[r].pc \in {"idle", "done"}

\* A finished request: the response of the handler, and in raised the
\* exception a call of the request raised, if one did.
\* return <body>
Return(op, arg, body) ==
    [op |-> op, pc |-> "done", arg |-> arg, raised |-> <<>>,
     status |-> 200, body |-> body]

\* Raise500 with the exception swallowed: an empty success response.
Raise500Swallowed(op, arg, e) ==
    [op |-> op, pc |-> "done", arg |-> arg, raised |-> <<>>,
     status |-> 200, body |-> <<>>]

\* except Exception as e: raise HTTPException(status_code=500, detail=str(e))
Raise500(op, arg, e) ==
    [op |-> op, pc |-> "done", arg |-> arg, raised |-> <<>>,
     status |-> 500, body |-> [detail |-> e]]

\* The request record with e noted as the exception that was raised.
Caught(request, e) == [request EXCEPT !.raised = <<e>>]

\* Stringified returning from inside its loop: the first document only.
StringifiedFirst(docs) ==
    [i \in 1..Min(1, Len(docs)) |-> [docs[i] EXCEPT !._id = Str(docs[i]._id)]]

\* for d in docs: d["_id"] = str(d["_id"])
Stringified(docs) ==
    [i \in 1..Len(docs) |-> [docs[i] EXCEPT !._id = Str(docs[i]._id)]]

(* ------------------------------- inputs -------------------------------- *)

\* q of GET /chords?q=
Queries ==
    { None, Some(<<>>), Some(<<"m","a","j","7">>), Some(<<"G","7">>),
      Some(<<"d"," ","m">>), Some(<<"z">>), Some(<<".">>) }

ClientIds == {"ann", "bob"}

\* The bodies POST /favorites receives here.  FavoriteIn accepts any body
\* whose client_id, kind and ref are strings and whose note is a string or
\* absent, so each of these passes its validation.
FavoriteIn ==
    { [client_id |-> "ann", kind |-> "chord", ref |-> "Cmaj7", note |-> None],
      [client_id |-> "bob", kind |-> "progression", ref |-> "ii-V-I in C",
       note |-> None],
      [client_id |-> "ann", kind |-> "lesson", ref |-> "Cmaj7",
       note |-> None] }

(* ------------------------------ GET / ---------------------------------- *)

read_root(r) ==
    /\ Free(r)
    /\ req' = [req EXCEPT ![r] =
                 Return("read_root", NoBody,
                        [message |-> "Master Jazz Pianist API is running"])]
    /\ UNCHANGED <<db, store, nextId, seeded, acked>>

(* ------------------------------ GET /test ------------------------------ *)

\* TestResponse without the [:10] slice.
TestResponseAll(url_set, listing) ==
    [backend |-> "Running",
     database |->
         IF db = "None"
         THEN [text |-> "Available but not initialized", error |-> <<>>]
         ELSE IF listing.ok
         THEN [text |-> "Connected & Working", error |-> <<>>]
         ELSE [text |-> "Connected but Error",
               error |-> Take(listing.error, ErrorShown)],
     database_url |-> "None",
     database_name |-> "None",
     connection_status |-> IF db = "None" THEN "Not Connected"
                                          ELSE "Connected",
     collections |-> IF db # "None" /\ listing.ok THEN listing.names
                                                  ELSE <<>>]

\* The response of test_database.  url_set: whether DATABASE_URL is set;
\* listing: what db.list_collection_names() did, [ok |-> TRUE, names |-> ...]
\* or [ok |-> FALSE, error |-> ...].  A database handle has a name.
TestResponse(url_set, listing) ==
    IF db # "None"
    THEN [backend |-> "Running",
          database |->
              IF listing.ok
              THEN [text |-> "Connected & Working", error |-> <<>>]
              ELSE [text |-> "Connected but Error",
                    error |-> Take(listing.error, ErrorShown)],
          database_url |-> IF url_set THEN "Set" ELSE "Not Set",
          database_name |-> "db.name",
          connection_status |-> "Connected",
          collections |->
              IF listing.ok THEN Take(listing.names, CollectionsShown)
                            ELSE <<>>]
    ELSE [backend |-> "Running",
          database |-> [text |-> "Available but not initialized",
                        error |-> <<>>],
          database_url |-> "None",
          database_name |-> "None",
          connection_status |-> "Not Connected",
          collections |-> <<>>]

\* How many names db.list_collection_names() returns here.
ListingLengths == {0, 1, CollectionsShown} \cup {MaxCollections}

\* What db.list_collection_names() can do: return a list of names or raise.
Listings ==
    { [ok |-> TRUE, names |-> [i \in 1..n |-> i], error |-> <<>>] :
         n \in ListingLengths }
    \cup { [ok |-> FALSE, names |-> <<>>, error |-> e] : e \in Errors }

test_database(r) ==
    /\ Free(r)
    /\ \E url_set \in BOOLEAN, listing \in Listings :
          req' = [req EXCEPT ![r] =
                    LET response ==
                            Return("test_database",
                                   [url_set |-> url_set, listing |-> listing],
                                   TestResponse(url_set, listing))
                    IN  IF db # "None" /\ ~listing.ok
                        THEN Caught(response, listing.error)
                        ELSE response]
    /\ UNCHANGED <<db, store, nextId, seeded, acked>>

(* ----------------------------- POST /seed ------------------------------ *)

SeedChecks == {"chk_chord", "chk_prog", "chk_lesson"}
SeedInserts == {"ins_chord1", "ins_chord2", "ins_chord3", "ins_prog",
                "ins_lesson"}

\* The collection a data-access call of seed works on.
SeedCollection(pc) ==
    CASE pc \in {"chk_chord", "ins_chord1", "ins_chord2", "ins_chord3"}
            -> "chord"
      [] pc \in {"chk_prog", "ins_prog"} -> "progression"
      [] pc \in {"chk_lesson", "ins_lesson"} -> "lesson"

\* The document a create_document call of seed inserts.
SeedDocument(pc) ==
    CASE pc = "ins_chord1" -> StarterChords[1]
      [] pc = "ins_chord2" -> StarterChords[2]
      [] pc = "ins_chord3" -> StarterChords[3]
      [] pc = "ins_prog"   -> StarterProgression
      [] pc = "ins_lesson" -> StarterLesson

\* The store after the data-access call at pc has succeeded.
SeedStore(pc) ==
    IF pc \in SeedInserts
    THEN create_document(SeedCollection(pc), SeedDocument(pc))
    ELSE store

\* SeedNext without the emptiness checks: it inserts every time.
SeedNextAlways(pc, existing) ==
    CASE pc = "chk_chord"  -> "ins_chord1"
      [] pc = "ins_chord1" -> "ins_chord2"
      [] pc = "ins_chord2" -> "ins_chord3"
      [] pc = "ins_chord3" -> "chk_prog"
      [] pc = "chk_prog"   -> "ins_prog"
      [] pc = "ins_prog"   -> "chk_lesson"
      [] pc = "chk_lesson" -> "ins_lesson"
      [] pc = "ins_lesson" -> "done"

\* SeedNext returning before the lesson collection is looked at.
SeedNextSkipsLesson(pc, existing) ==
    CASE pc = "chk_chord"  -> IF existing = <<>> THEN "ins_chord1"
                                                 ELSE "chk_prog"
      [] pc = "ins_chord1" -> "ins_chord2"
      [] pc = "ins_chord2" -> "ins_chord3"
      [] pc = "ins_chord3" -> "chk_prog"
      [] pc = "chk_prog"   -> IF existing = <<>> THEN "ins_prog"
                                                 ELSE "done"
      [] pc = "ins_prog"   -> "done"
      [] pc = "chk_lesson" -> "done"
      [] pc = "ins_lesson" -> "done"

\* Where seed goes after the call at pc has succeeded; existing is what a
\* get_documents(..., limit=1) returned.
SeedNext(pc, existing) ==
    CASE pc = "chk_chord"  -> IF existing = <<>> THEN "ins_chord1"
                                                 ELSE "chk_prog"
      [] pc = "ins_chord1" -> "ins_chord2"
      [] pc = "ins_chord2" -> "ins_chord3"
      [] pc = "ins_chord3" -> "chk_prog"
      [] pc = "chk_prog"   -> IF existing = <<>> THEN "ins_prog"
                                                 ELSE "chk_lesson"
      [] pc = "ins_prog"   -> "chk_lesson"
      [] pc = "chk_lesson" -> IF existing = <<>> THEN "ins_lesson"
                                                 ELSE "done"
      [] pc = "ins_lesson" -> "done"

\* Whether the three seeded collections are all empty.
ContentEmpty ==
    store["chord"] = <<>> /\ store["progression"] = <<>>
        /\ store["lesson"] = <<>>

\* One data-access call of seed, the one at pc, made by worker r whose
\* request so far is cur: it raises one of the errors in raises, and seed
\* answers 500, or it succeeds and seed moves on, answering
\* {"status": "ok"} after the last one.
SeedCall(r, pc, cur, raises) ==
    \/ /\ \E e \in raises :
             req' = [req EXCEPT ![r] =
                       Caught(Raise500("seed", cur.arg, e), e)]
       /\ UNCHANGED <<db, store, nextId, seeded, acked>>
    \/ /\ CanSucceed
       /\ LET existing ==
                  IF pc \in SeedChecks
                  THEN get_documents(SeedCollection(pc), EmptyFilter, 1)
                  ELSE <<>>
              next == SeedNext(pc, existing)
          IN  /\ store' = SeedStore(pc)
              /\ nextId' = IF pc \in SeedInserts
                            THEN IdsAfter(SeedCollection(pc)) ELSE nextId
              /\ req' = [req EXCEPT ![r] =
                    IF next = "done"
                    THEN Return("seed", cur.arg, [status |-> "ok"])
                    ELSE [cur EXCEPT !.pc = next]]
              /\ seeded' =
                    IF next = "done" /\ cur.arg.from_empty /\ seeded = <<>>
                    THEN <<store'>> ELSE seeded
       /\ UNCHANGED <<db, acked>>

\* POST /seed arrives and makes its first data-access call.
seed(r) ==
    /\ Free(r)
    /\ SeedCall(r, "chk_chord",
                [Idle EXCEPT !.op = "seed",
                             !.arg = [from_empty |-> ContentEmpty]],
                CanRaise)

\* A POST /seed being served makes its next data-access call.
seed_step(r) ==
    /\ req[r].op = "seed"
    /\ req[r].pc \in SeedChecks \cup SeedInserts
    /\ SeedCall(r, req[r].pc, req[r], CanRaise)

\* The same two steps while the storage is healthy: a call raises only for
\* want of a database handle.
NoHandle == IF db = "None" THEN {NotAvailable} ELSE {}

seed_healthy(r) ==
    /\ Free(r)
    /\ SeedCall(r, "chk_chord",
                [Idle EXCEPT !.op = "seed",
                             !.arg = [from_empty |-> ContentEmpty]],
                NoHandle)

seed_step_healthy(r) ==
    /\ req[r].op = "seed"
    /\ req[r].pc \in SeedChecks \cup SeedInserts
    /\ SeedCall(r, req[r].pc, req[r], NoHandle)

(* ----------------------- GET /chords?q=, lists ------------------------- *)

\* filter_dict of list_chords.
chord_filter(q) ==
    IF Truthy(q)
    THEN [type |-> "or",
          clauses |-> << [field |-> "name", regex |-> q.val,
                          options |-> "i"],
                         [field |-> "symbol", regex |-> q.val,
                          options |-> "i"] >>]
    ELSE EmptyFilter

\* A handler that makes one get_documents call and returns the documents
\* with their ids stringified, or answers 500 when the call raises.
ListHandler(r, op, arg, collection, filter) ==
    /\ Free(r)
    /\ \/ \E e \in CanRaise :
             req' = [req EXCEPT ![r] =
                       Caught(Raise500(op, arg, e), e)]
       \/ /\ CanSucceed
          /\ req' = [req EXCEPT ![r] =
                Return(op, arg,
                       Stringified(get_documents(collection, filter,
                                                 Unbounded)))]
    /\ UNCHANGED <<db, store, nextId, seeded, acked>>

list_chords(r) ==
    \E q \in Queries :
        ListHandler(r, "list_chords", q, "chord", chord_filter(q))

list_progressions(r) ==
    ListHandler(r, "list_progressions", NoBody, "progression", EmptyFilter)

list_lessons(r) ==
    ListHandler(r, "list_lessons", NoBody, "lesson", EmptyFilter)

(* ------------------------------ favorites ------------------------------ *)

\* FavoriteStore replacing what the collection held instead of adding to it.
FavoriteStoreReplace(fav) ==
    [store EXCEPT !["favorite"] =
        << [_id |-> nextId["favorite"]]
             @@ Favorite(fav.client_id, fav.kind, fav.ref, fav.note) >>]

\* The store after add_favorite's create_document has succeeded:
\* Favorite(**fav.model_dump()) copies the four fields of the body.
FavoriteStore(fav) ==
    create_document("favorite",
                    Favorite(fav.client_id, fav.kind, fav.ref, fav.note))

\* What a favorite is known by to its client.
Key(f) == [client_id |-> f.client_id, kind |-> f.kind, ref |-> f.ref]

add_favorite(r) ==
    /\ Free(r)
    /\ Len(store["favorite"]) < MaxFavorites
    /\ \E fav \in FavoriteIn :
          \/ /\ \E e \in CanRaise :
                   req' = [req EXCEPT ![r] =
                             Caught(Raise500("add_favorite", fav, e), e)]
             /\ UNCHANGED <<store, nextId, acked>>
          \/ /\ CanSucceed
             /\ store' = FavoriteStore(fav)
             /\ nextId' = IdsAfter("favorite")
             /\ req' = [req EXCEPT ![r] =
                          Return("add_favorite", fav, [status |-> "saved"])]
             /\ acked' = acked \cup {Key(fav)}
    /\ UNCHANGED <<db, seeded>>

\* favorites_filter without the client: every client's favorites.
favorites_filter_all(client_id) == EmptyFilter

\* The filter of get_favorites.
favorites_filter(client_id) ==
    [type |-> "eq", field |-> "client_id", value |-> client_id]

get_favorites(r) ==
    \E client_id \in ClientIds :
        ListHandler(r, "get_favorites", client_id, "favorite",
                    favorites_filter(client_id))

(* --------------------------- specifications ---------------------------- *)

\* After startup: the handle is set or not, once; the store is empty and
\* no request has arrived.
Init ==
    /\ db \in {"None", "Database"}
    /\ store = [c \in Collections |-> <<>>]
    /\ nextId = [c \in Collections |-> FirstId]
    /\ req = [r \in Workers |-> Idle]
    /\ seeded = <<>>
    /\ acked = {}

\* Worker r serves a request or goes on with the one it is serving.
Serve(r) ==
    \/ read_root(r)
    \/ test_database(r)
    \/ seed(r)
    \/ seed_step(r)
    \/ list_chords(r)
    \/ list_progressions(r)
    \/ list_lessons(r)
    \/ add_favorite(r)
    \/ get_favorites(r)

\* Requests one at a time: a single worker.
Next == Serve(1)

Spec == Init /\ [][Next]_vars

\* POST /seed requests served concurrently, one per worker, their store
\* operations interleaved, the storage healthy.
NextConc == \E r \in Workers : seed_healthy(r) \/ seed_step_healthy(r)

SpecConc == Init /\ [][NextConc]_vars

(* ------------------------------- claims -------------------------------- *)

Done(r, op) == req[r].op = op /\ req[r].pc = "done"
Ok(r, op) == Done(r, op) /\ req[r].status = 200

\* A stored document without its id.
Fields(d) == [f \in (DOMAIN d) \ {"_id"} |-> d[f]]
FieldsOf(docs) == [i \in 1..Len(docs) |-> Fields(docs[i])]

\* A string of digits, and the number it writes.
IsDigitString(s) ==
    /\ Len(s) > 0
    /\ \A i \in 1..Len(s) : \E j \in 1..Len(Digits) : Digits[j] = s[i]
DigitValue(c) == (CHOOSE j \in 1..Len(Digits) : Digits[j] = c) - 1
RECURSIVE Number(_)
Number(s) == IF Len(s) = 0 THEN 0
             ELSE 10 * Number(SubSeq(s, 1, Len(s) - 1)) + DigitValue(s[Len(s)])

\* A response body is exactly these stored documents, in order, each id a
\* string that writes the stored id.
IsListing(body, docs) ==
    /\ Len(body) = Len(docs)
    /\ \A i \in 1..Len(docs) :
          /\ Fields(body[i]) = Fields(docs[i])
          /\ IsDigitString(body[i]._id)
          /\ Number(body[i]._id) = docs[i]._id

\* s is an initial part of t.
IsPrefix(s, t) == Len(s) <= Len(t) /\ s = SubSeq(t, 1, Len(s))

\* How many documents of a collection have these fields.
Copies(collection, fields) ==
    Cardinality({i \in 1..Len(store[collection]) :
                    Fields(store[collection][i]) = fields})

\* q occurs in s as a substring, letter case ignored.
ContainsIgnoringCase(s, q) ==
    \E k \in 0..(Len(s) - Len(q)) :
        \A i \in 1..Len(q) : Fold(s[k + i]) = Fold(q[i])

\* C1: once a POST /seed that started from an empty store has returned ok,
\* the chord, progression and lesson collections stay exactly as that seed
\* left them (three starter chords, one progression, one lesson), whatever
\* POST /seed calls follow one after the other.
SeedIdempotent ==
    seeded # <<>> =>
        /\ store["chord"] = seeded[1]["chord"]
        /\ store["progression"] = seeded[1]["progression"]
        /\ store["lesson"] = seeded[1]["lesson"]
        /\ FieldsOf(store["chord"]) = StarterChords
        /\ FieldsOf(store["progression"]) = <<StarterProgression>>
        /\ FieldsOf(store["lesson"]) = <<StarterLesson>>

\* A further POST /seed has returned ok after the one that filled the store.
SeedRepeated ==
    seeded # <<>> /\ Ok(1, "seed") /\ ~req[1].arg.from_empty

\* C2: GET /chords?q=<q> with a non-empty q returns exactly the chords whose
\* name or symbol contains q as a substring, letter case ignored.
ChordsQueryIsSubstringFilter ==
    \A r \in Workers :
        (Ok(r, "list_chords") /\ Truthy(req[r].arg)) =>
            IsListing(req[r].body,
                      SelectSeq(store["chord"],
                          LAMBDA d :
                              \/ ContainsIgnoringCase(d.name, req[r].arg.val)
                              \/ ContainsIgnoringCase(d.symbol,
                                                      req[r].arg.val)))

\* C3: GET /chords with no query, GET /progressions and GET /lessons, when
\* no storage call fails, answer 200 with exactly the documents stored in
\* their collection, each with a string id; an empty collection gives an
\* empty array.
ListsReturnAll ==
    \A r \in Workers :
        /\ (Done(r, "list_chords") /\ ~Truthy(req[r].arg)
                /\ req[r].raised = <<>>) =>
              req[r].status = 200 /\ IsListing(req[r].body, store["chord"])
        /\ (Done(r, "list_progressions") /\ req[r].raised = <<>>) =>
              req[r].status = 200
                  /\ IsListing(req[r].body, store["progression"])
        /\ (Done(r, "list_lessons") /\ req[r].raised = <<>>) =>
              req[r].status = 200 /\ IsListing(req[r].body, store["lesson"])

\* GET /chords with no query has returned the three stored chords.
ListedThreeChords ==
    Ok(1, "list_chords") /\ ~Truthy(req[1].arg) /\ Len(req[1].body) = 3

\* C4: GET /favorites/c returns exactly the stored favorites whose client_id
\* is c, among them every favorite of c that POST /favorites has
\* acknowledged before.
FavoritesOfClient ==
    \A r \in Workers :
        Ok(r, "get_favorites") =>
            /\ IsListing(req[r].body,
                         SelectSeq(store["favorite"],
                                   LAMBDA d : d.client_id = req[r].arg))
            /\ \A k \in acked :
                  k.client_id = req[r].arg =>
                      \E i \in 1..Len(req[r].body) : Key(req[r].body[i]) = k

\* GET /favorites/c has returned c's favorite while another client has one.
FavoritesListedAmongOthers ==
    /\ Ok(1, "get_favorites")
    /\ Len(req[1].body) > 0
    /\ \E i \in 1..Len(store["favorite"]) :
          store["favorite"][i].client_id # req[1].arg

\* C5: GET /test always answers 200 with the diagnostic object: the database
\* status says which of the three cases held (no handle, listing worked,
\* listing raised), and collections holds at most 10 names.
TestNeverRaises ==
    \A r \in Workers :
        Done(r, "test_database") =>
            /\ req[r].status = 200
            /\ Len(req[r].body.collections) <= 10
            /\ IsPrefix(req[r].body.collections, req[r].arg.listing.names)
            /\ req[r].body.database.text =
                  IF db = "None" THEN "Available but not initialized"
                  ELSE IF req[r].arg.listing.ok THEN "Connected & Working"
                  ELSE "Connected but Error"
            /\ (db # "None" /\ ~req[r].arg.listing.ok) =>
                  /\ Len(req[r].body.database.error) <= 50
                  /\ IsPrefix(req[r].body.database.error,
                              req[r].arg.listing.error)

\* GET /test has answered after the database listed more than 10 names.
TestListedMany ==
    /\ Done(1, "test_database")
    /\ db # "None"
    /\ req[1].arg.listing.ok
    /\ Len(req[1].arg.listing.names) > 10

StoreOps == {"seed", "list_chords", "list_progressions", "list_lessons",
             "add_favorite", "get_favorites"}

\* C6: in the handlers that touch the store, once a data-access call has
\* raised, the request is over (no further call, none repeated) and its
\* response is 500 with the error's message as detail; a 200 response is
\* given only when no call raised.
StorageFailureIs500 ==
    \A r \in Workers :
        req[r].op \in StoreOps =>
            /\ req[r].raised # <<>> =>
                  /\ req[r].pc = "done"
                  /\ req[r].status = 500
                  /\ req[r].body = [detail |-> req[r].raised[1]]
            /\ req[r].status = 500 => req[r].raised # <<>>

\* A POST /seed has failed on a call after its first insert.
SeedFailedMidway ==
    /\ Done(1, "seed")
    /\ req[1].raised # <<>>
    /\ Len(store["chord"]) = 1

\* A step of a GET handler, and a step of a POST handler.
GetStep ==
    \E r \in Workers :
        \/ read_root(r)
        \/ test_database(r)
        \/ list_chords(r)
        \/ list_progressions(r)
        \/ list_lessons(r)
        \/ get_favorites(r)
PostStep == \E r \in Workers : seed(r) \/ seed_step(r) \/ add_favorite(r)

\* C7: a step never removes or changes a stored document (every collection
\* only grows at its end), a GET handler's step leaves the store as it was,
\* and the store changes only in a step of POST /seed or POST /favorites.
NeverUpdatedOrDeleted ==
    [][ /\ \A c \in Collections : IsPrefix(store[c], store'[c])
        /\ store' # store => (PostStep /\ ~GetStep)
      ]_vars

\* Both favorites and the full starter set are stored and a GET has been
\* answered.
StoreFullAndRead ==
    /\ Len(store["favorite"]) = MaxFavorites
    /\ Len(store["chord"]) = 3
    /\ Ok(1, "list_chords")

\* C8: every stored favorite has kind "chord" or "progression".
FavoriteKindsValid ==
    \A i \in 1..Len(store["favorite"]) :
        store["favorite"][i].kind \in {"chord", "progression"}

SeedOkMeansComplete ==
    \A r \in Workers :
        Ok(r, "seed") =>
            /\ FieldsOf(store["chord"]) = StarterChords
            /\ FieldsOf(store["progression"]) = <<StarterProgression>>
            /\ FieldsOf(store["lesson"]) = <<StarterLesson>>

\* C10 as amended: whenever POST /seed has returned ok, requests being
\* served one at a time, the progression and the lesson collection hold
\* exactly their one starter record and the chord collection holds a
\* non-empty initial part of the three starter chords.
SeedOkMeansNonEmpty ==
    \A r \in Workers :
        Ok(r, "seed") =>
            /\ store["chord"] # <<>>
            /\ IsPrefix(FieldsOf(store["chord"]), StarterChords)
            /\ FieldsOf(store["progression"]) = <<StarterProgression>>
            /\ FieldsOf(store["lesson"]) = <<StarterLesson>>

\* POST /seed has returned ok over a chord collection an earlier, failed
\* POST /seed left incomplete.
SeedOkOverPartialChords ==
    Ok(1, "seed") /\ Len(store["chord"]) \in {1, 2}

====
